---- MODULE Spec2Model ----
(***************************************************************************)
(* LiTVIE (youtube_dl/extractor/litv.py): the extractor's _real_extract    *)
(* and _extract_playlist, run by a host that resolves a user URL and then  *)
(* every entry of a returned playlist.                                     *)
(*                                                                         *)
(* Python values are modelled as follows.  A dict is a function whose      *)
(* domain is its set of keys.  d.get(k) is a sequence of length at most    *)
(* one: <<>> is None, <<v>> is the value v.  A text string that the code   *)
(* concatenates or formats (title, errorMessage) is a sequence of tokens,  *)
(* '' being <<>>; identifiers that are only compared are TLA+ strings.     *)
(* A raised exception is a result of kind "error".                         *)
(***************************************************************************)
EXTENDS Integers, Sequences, FiniteSets, TLC

VARIABLES site, params, pending, depth, last, prev, notices, resolved, top

vars == <<site, params, pending, depth, last, prev, notices, resolved, top>>

\* ------------------------------------------------------------------ bounds
MaxEpisodes == 2
MaxFormats == 2
MaxDepth == 2

\* --------------------------------------------------------------- constants
ContentIds == {"VOD00037490", "VOD00044841"}
SeriesId == "VOD00037490"
AssetIds == {"assetEmbedded", "assetFetched"}
FullPath == <<"https://litv/playlist.m3u8">>
IE_NAME == <<"litv">>
GeoCode == <<"vod.error.outsideregionerror">>
GeoText == <<"This video is available in Taiwan only">>
NoCompression == "Youtubedl-no-compression"
TaxonomyKinds == {"NoMatch", "ParseFailure", "GeoRestricted", "RemoteError",
                  "UnexpectedResponse"}

\* ------------------------------------------------------------ Python values
EmptyDict == [k \in {} |-> TRUE]

Get(d, k) == IF k \in DOMAIN d THEN <<d[k]>> ELSE <<>>

GetDefault(d, k, default) == IF k \in DOMAIN d THEN d[k] ELSE default

\* bool(x) of an optional text: None and '' are false
TruthyText(opt) == opt # <<>> /\ opt[1] # <<>>

\* bool(x) of an optional boolean: None and False are false
TruthyBool(opt) == opt # <<>> /\ opt[1]

SetKey(d, k, v) == [j \in DOMAIN d \cup {k} |-> IF j = k THEN v ELSE d[j]]

\* ------------------------------------------------------ host helper functions
\* A URL is [id, frag]: frag is <<>> or <<data>>, the smuggled options.
smuggle_url(url, data) == [url EXCEPT !.frag = <<data>>]

unsmuggle_url(smug_url, default) ==
    IF smug_url.frag = <<>>
    THEN <<smug_url, default>>
    ELSE <<[smug_url EXCEPT !.frag = <<>>], smug_url.frag[1]>>

match_id(url) == url.id

url_result(url) == [type |-> "url", url |-> url]

playlist_result(entries, playlist_id, playlist_title) ==
    [kind |-> "playlist", entries |-> entries, id |-> playlist_id,
     title |-> playlist_title]

\* An embedded assignment is <<>> (the regex finds nothing) or <<text>>.
search_regex(section, default) == IF section = <<>> THEN default ELSE section[1]

\* A JSON text is [ok, value]: ok is whether json.loads accepts it.
JsonText(value) == [ok |-> TRUE, value |-> value]

Malformed(value) == [ok |-> FALSE, value |-> value]

DigitValue == [t \in {"1", "2"} |-> IF t = "1" THEN 1 ELSE 2]

int_or_none(opt) ==
    IF opt = <<>> THEN <<>>
    ELSE IF opt[1] \in DOMAIN DigitValue THEN <<DigitValue[opt[1]]>> ELSE <<>>

Request(op, video_id, payload) == [op |-> op, video_id |-> video_id, payload |-> payload]

download_webpage(s, url) == s.webpage[url.id]

Failure(kind, msg) == [kind |-> "error", error |-> kind, msg |-> msg]

\* --------------------------------------------------------------- LiTVIE
Notice(kind, content_id, video_id) ==
    [kind |-> kind, content_id |-> content_id, video_id |-> video_id]

\* smuggled_entry without the smuggled flag
plain_entry(episode) == url_result(episode["url"])

\* lines 62-64: one playlist entry, the episode's url with the smuggled flag
smuggled_entry(episode) ==
    url_result(smuggle_url(episode["url"], [force_noplaylist |-> TRUE]))

\* extract_playlist naming the playlist after the url's id
extract_playlist_by_video_id(episodes_list, video_id, program_info, prompt) ==
    IF "title" \notin DOMAIN program_info \/ "contentId" \notin DOMAIN program_info
    THEN [result |-> Failure("KeyError", <<>>), screen |-> <<>>]
    ELSE [result |-> playlist_result([i \in 1..Len(episodes_list) |->
                                        smuggled_entry(episodes_list[i])],
                                     video_id, program_info["title"]),
          screen |-> IF prompt
                     THEN <<Notice("Downloading playlist", program_info["contentId"],
                                   video_id)>>
                     ELSE <<>>]

\* lines 54-67; reading a missing key of program_info raises KeyError
extract_playlist(episodes_list, video_id, program_info, prompt) ==
    IF "title" \notin DOMAIN program_info \/ "contentId" \notin DOMAIN program_info
    THEN [result |-> Failure("KeyError", <<>>), screen |-> <<>>]
    ELSE LET episode_title == program_info["title"]
             content_id == program_info["contentId"]
             all_episodes == [i \in 1..Len(episodes_list) |->
                                 smuggled_entry(episodes_list[i])]
         IN  [result |-> playlist_result(all_episodes, content_id, episode_title),
              screen |-> IF prompt
                         THEN <<Notice("Downloading playlist", content_id, video_id)>>
                         ELSE <<>>]

\* playlist_intent reading the global preference only
playlist_intent_global(prm, data) ==
    [noplaylist |-> Get(prm, "noplaylist"),
     noplaylist_prompt |-> "force_noplaylist" \notin DOMAIN data]

\* playlist_intent that never switches the notice off
playlist_intent_always_prompt(prm, data) ==
    [noplaylist |-> IF "force_noplaylist" \in DOMAIN data
                    THEN <<data["force_noplaylist"]>>
                    ELSE Get(prm, "noplaylist"),
     noplaylist_prompt |-> TRUE]

\* lines 74-78
playlist_intent(prm, data) ==
    IF "force_noplaylist" \in DOMAIN data
    THEN [noplaylist |-> <<data["force_noplaylist"]>>, noplaylist_prompt |-> FALSE]
    ELSE [noplaylist |-> Get(prm, "noplaylist"), noplaylist_prompt |-> TRUE]

\* fetch_program_info asking the service whatever the page embeds
fetch_program_info_always(s, program_info, video_id) ==
    [program_info |-> s.getProgramInfo[video_id],
     requests |-> <<Request("getProgramInfo", video_id, [contentId |-> video_id])>>]

\* lines 103-107
fetch_program_info(s, program_info, video_id) ==
    IF "assetId" \notin DOMAIN program_info
    THEN [program_info |-> s.getProgramInfo[video_id],
          requests |-> <<Request("getProgramInfo", video_id, [contentId |-> video_id])>>]
    ELSE [program_info |-> program_info, requests |-> <<>>]

\* lines 112-116
main_url_payload(program_info) ==
    [assetId |-> program_info["assetId"],
     watchDevices |-> program_info["watchDevices"],
     contentType |-> program_info["contentType"]]

\* lines 108-120
fetch_video_data(s, webpage, program_info, video_id) ==
    LET text == search_regex(webpage.uiHlsUrl, JsonText(EmptyDict))
    IN  IF ~text.ok
        THEN [error |-> <<Failure("ParseFailure", <<>>)>>, video_data |-> EmptyDict,
              requests |-> <<>>]
        ELSE IF DOMAIN text.value # {}
        THEN [error |-> <<>>, video_data |-> text.value, requests |-> <<>>]
        ELSE IF ~({"assetId", "watchDevices", "contentType"} \subseteq DOMAIN program_info)
        THEN [error |-> <<Failure("KeyError", <<>>)>>, video_data |-> EmptyDict,
              requests |-> <<>>]
        ELSE LET payload == main_url_payload(program_info)
             IN  [error |-> <<>>,
                  video_data |-> s.getMainUrlNoAuth[payload.assetId],
                  requests |-> <<Request("getMainUrlNoAuth", video_id, payload)>>]

\* remote_error keeping the first token of the message only
remote_error_truncated(error_msg) ==
    Failure("RemoteError", IE_NAME \o <<" said: ">> \o SubSeq(error_msg, 1, 1))

\* line 127
remote_error(error_msg) ==
    Failure("RemoteError", IE_NAME \o <<" said: ">> \o error_msg)

\* classify_failure testing for any message before the region code
classify_failure_message_first(video_data) ==
    IF TruthyText(Get(video_data, "fullpath"))
    THEN <<>>
    ELSE LET error_msg == Get(video_data, "errorMessage")
         IN  IF TruthyText(error_msg)
             THEN <<remote_error(error_msg[1])>>
             ELSE IF error_msg = <<GeoCode>>
             THEN <<Failure("GeoRestricted", GeoText)>>
             ELSE <<Failure("UnexpectedResponse", <<"Unexpected result from ">> \o IE_NAME)>>

\* lines 122-128: <<>> when fullpath is there, else the error raised
classify_failure(video_data) ==
    IF TruthyText(Get(video_data, "fullpath"))
    THEN <<>>
    ELSE LET error_msg == Get(video_data, "errorMessage")
         IN  IF error_msg = <<GeoCode>>
             THEN <<Failure("GeoRestricted", GeoText)>>
             ELSE IF TruthyText(error_msg)
             THEN <<remote_error(error_msg[1])>>
             ELSE <<Failure("UnexpectedResponse", <<"Unexpected result from ">> \o IE_NAME)>>

\* no_compression that leaves a variant's own http_headers alone
no_compression_if_missing(a_format) ==
    IF "http_headers" \in DOMAIN a_format THEN a_format
    ELSE SetKey(a_format, "http_headers", [k \in {NoCompression} |-> TRUE])

\* line 135
no_compression(a_format) ==
    SetKey(a_format, "http_headers",
           SetKey(GetDefault(a_format, "http_headers", EmptyDict), NoCompression, TRUE))

\* lines 130-135
extract_formats(s, fullpath) ==
    [i \in 1..Len(s.m3u8[fullpath]) |-> no_compression(s.m3u8[fullpath][i])]

category_name(item) == item["name"]

\* result_id taken from the programInfo
result_id_from_info(video_id, program_info) ==
    GetDefault(program_info, "contentId", video_id)

\* line 144
result_id(video_id, program_info) == video_id

\* lines 137-151
single_result(video_id, formats, program_info) ==
    IF "title" \notin DOMAIN program_info
    THEN Failure("KeyError", <<>>)
    ELSE [kind |-> "video",
          id |-> result_id(video_id, program_info),
          formats |-> formats,
          title |-> program_info["title"] \o GetDefault(program_info, "secondaryMark", <<>>),
          description |-> Get(program_info, "description"),
          thumbnail |-> Get(program_info, "imageFile"),
          categories |-> LET category == GetDefault(program_info, "category", <<>>)
                         IN  [i \in 1..Len(category) |-> category_name(category[i])],
          episode_number |-> int_or_none(Get(program_info, "episode"))]

Call(result, requests, screen) ==
    [result |-> result, requests |-> requests, screen |-> screen]

\* lines 99-151: the single-video path
single_video(s, webpage, video_id, embedded_info, requests, screen) ==
    LET info == fetch_program_info(s, embedded_info, video_id)
        program_info == info.program_info
        vd == fetch_video_data(s, webpage, program_info, video_id)
        video_data == vd.video_data
        reqs == requests \o info.requests \o vd.requests
        failure == classify_failure(video_data)
    IN  IF vd.error # <<>> THEN Call(vd.error[1], reqs, screen)
        ELSE IF failure # <<>> THEN Call(failure[1], reqs, screen)
        ELSE Call(single_result(video_id,
                                extract_formats(s, video_data["fullpath"]),
                                program_info),
                  reqs \o <<Request("m3u8", video_id, [url |-> video_data["fullpath"]])>>,
                  screen)

\* lines 69-151
real_extract(smug_url, prm, s) ==
    LET un == unsmuggle_url(smug_url, EmptyDict)
        url == un[1]
        data == un[2]
        video_id == match_id(url)
        intent == playlist_intent(prm, data)
        webpage == download_webpage(s, url)
        requests == <<Request("webpage", video_id, [url |-> url])>>
        info_text == search_regex(webpage.programInfo, JsonText(EmptyDict))
        list_text == search_regex(webpage.itemList, JsonText(<<>>))
    IN  IF ~info_text.ok \/ ~list_text.ok
        THEN Call(Failure("ParseFailure", <<>>), requests, <<>>)
        ELSE LET program_info == info_text.value
                 episodes_list == list_text.value
             IN  IF episodes_list # <<>> /\ ~TruthyBool(intent.noplaylist)
                 THEN LET pl == extract_playlist(episodes_list, video_id, program_info,
                                                 intent.noplaylist_prompt)
                      IN  Call(pl.result, requests, pl.screen)
                 ELSE single_video(s, webpage, video_id, program_info, requests,
                                   IF episodes_list # <<>> /\ intent.noplaylist_prompt
                                   THEN <<Notice("Downloading just video", video_id, video_id)>>
                                   ELSE <<>>)

\* ------------------------------------------------- the remote service's data
InfoFull(cid, asset) ==
    [title |-> <<"title">>, contentId |-> cid, secondaryMark |-> <<"ep1">>,
     description |-> <<"description">>, imageFile |-> <<"image.jpg">>,
     category |-> <<[name |-> <<"drama">>]>>, episode |-> "1",
     assetId |-> asset, watchDevices |-> <<"PC">>, contentType |-> "drama"]

InfoBare(cid, asset) ==
    [title |-> <<"title">>, contentId |-> cid, episode |-> "special",
     assetId |-> asset, watchDevices |-> <<"PC">>, contentType |-> "drama"]

InfoPartial(cid) == [title |-> <<"series">>, contentId |-> cid]

VideoDatas ==
    {[fullpath |-> FullPath],
     [fullpath |-> FullPath, errorMessage |-> GeoCode],
     [errorMessage |-> GeoCode],
     [errorMessage |-> <<"vod.error.", "other">>],
     [errorMessage |-> <<"busy">>],
     [fullpath |-> <<>>, errorMessage |-> <<>>],
     [status |-> <<"ok">>]}

FormatKinds ==
    {[format_id |-> "hls"],
     [format_id |-> "hls", http_headers |-> [Accept |-> "any"]],
     [format_id |-> "hls",
      http_headers |-> SetKey([Accept |-> "any"], NoCompression, FALSE)]}

SeqsUpTo(S, n) == UNION {[1..k -> S] : k \in 0..n}

EpisodeLists ==
    SeqsUpTo({[url |-> [id |-> c, frag |-> <<>>]] : c \in ContentIds}, MaxEpisodes) \ {<<>>}

Manifests == SeqsUpTo(FormatKinds, MaxFormats)

InfoSections ==
    {<<>>, <<Malformed(EmptyDict)>>, <<JsonText(InfoFull(SeriesId, "assetEmbedded"))>>,
     <<JsonText(InfoPartial(SeriesId))>>}

ListSections == {<<>>, <<Malformed(<<>>)>>} \cup {<<JsonText(l)>> : l \in EpisodeLists}

VideoSections ==
    {<<>>, <<Malformed(EmptyDict)>>, <<JsonText(EmptyDict)>>}
    \cup {<<JsonText(v)>> : v \in VideoDatas}

\* getProgramInfo answers with a ProgramInfo that has the fields of the
\* getMainUrlNoAuth payload, with or without the optional fields.
InfoResponses ==
    {[c \in ContentIds |-> InfoFull(c, "assetFetched")],
     [c \in ContentIds |-> InfoBare(c, "assetFetched")]}

Site(info, list, video, infoResponse, mainResponse, manifest) ==
    [webpage |-> [c \in ContentIds |->
                     [programInfo |-> info, itemList |-> list, uiHlsUrl |-> video]],
     getProgramInfo |-> infoResponse,
     getMainUrlNoAuth |-> [a \in AssetIds |-> mainResponse],
     m3u8 |-> [p \in {FullPath} |-> manifest]]

DefaultList == [i \in 1..1 |-> [url |-> [id |-> SeriesId, frag |-> <<>>]]]

DefaultManifest ==
    <<[format_id |-> "hls"], [format_id |-> "hls", http_headers |-> [Accept |-> "any"]]>>

\* The pages vary, the API answers with a manifest url.
PageSites ==
    {Site(i, l, v, r, [fullpath |-> FullPath], DefaultManifest) :
        i \in InfoSections, l \in ListSections, v \in VideoSections, r \in InfoResponses}

\* The API's answers vary, the page embeds no video data.
ApiSites ==
    {Site(i, l, v, r, m, DefaultManifest) :
        i \in InfoSections \ {<<Malformed(EmptyDict)>>},
        l \in {<<>>, <<JsonText(DefaultList)>>},
        v \in {<<>>, <<JsonText(EmptyDict)>>},
        r \in InfoResponses, m \in VideoDatas}

\* The manifest varies.
ManifestSites ==
    {Site(<<JsonText(InfoFull(SeriesId, "assetEmbedded"))>>, l, v,
          [c \in ContentIds |-> InfoFull(c, "assetFetched")],
          [fullpath |-> FullPath], m) :
        l \in {<<>>, <<JsonText(DefaultList)>>},
        v \in {<<>>, <<JsonText([fullpath |-> FullPath])>>},
        m \in Manifests}

Sites == PageSites \cup ApiSites \cup ManifestSites

Params == {EmptyDict, [noplaylist |-> TRUE], [noplaylist |-> FALSE]}

SmuggledData == {[force_noplaylist |-> TRUE], [force_noplaylist |-> FALSE]}

UserUrls ==
    {[id |-> c, frag |-> f] : c \in ContentIds, f \in {<<>>} \cup {<<d>> : d \in SmuggledData}}

\* ------------------------------------------------------------------ the host
Init ==
    /\ site \in Sites
    /\ params \in Params
    /\ pending = <<>>
    /\ depth = 0
    /\ last = <<>>
    /\ prev = <<>>
    /\ notices = <<>>
    /\ resolved = <<>>
    /\ top = <<>>

\* The host resolves a url the user gave.
Resolve(url) ==
    /\ pending = <<>>
    /\ LET call == real_extract(url, params, site)
           isPlaylist == call.result.kind = "playlist"
       IN  /\ last' = <<[url |-> url, entry |-> FALSE, call |-> call]>>
           /\ prev' = last
           /\ notices' = call.screen
           /\ resolved' = <<>>
           /\ top' = last'
           /\ pending' = IF isPlaylist THEN call.result.entries ELSE <<>>
           /\ depth' = IF isPlaylist THEN 1 ELSE 0
    /\ UNCHANGED <<site, params>>

\* The host resolves the next entry of the playlist it is expanding.
ResolveEntry ==
    /\ pending # <<>>
    /\ LET entry == Head(pending)
           call == real_extract(entry.url, params, site)
           nests == call.result.kind = "playlist" /\ depth < MaxDepth
       IN  /\ last' = <<[url |-> entry.url, entry |-> TRUE, call |-> call]>>
           /\ prev' = last
           /\ notices' = notices \o call.screen
           /\ resolved' = Append(resolved, entry.url)
           /\ pending' = IF nests THEN call.result.entries \o Tail(pending)
                         ELSE Tail(pending)
           /\ depth' = IF nests THEN depth + 1 ELSE depth
    /\ UNCHANGED <<site, params, top>>

Next ==
    \/ \E url \in UserUrls : Resolve(url)
    \/ ResolveEntry

Spec == Init /\ [][Next]_vars

\* ------------------------------------------------- what the last call was given
Called == last # <<>>

LastUrl == last[1].url

LastResult == last[1].call.result

LastRequests == last[1].call.requests

LastScreen == last[1].call.screen

LastPage == site.webpage[LastUrl.id]

Forced(url) == url.frag # <<>> /\ "force_noplaylist" \in DOMAIN url.frag[1]

\* the smuggled force_noplaylist if present, otherwise the global preference
EffectiveNoPlaylist(url) ==
    IF Forced(url) THEN url.frag[1]["force_noplaylist"]
    ELSE "noplaylist" \in DOMAIN params /\ params["noplaylist"]

PageParses(page) ==
    /\ page.programInfo # <<>> => page.programInfo[1].ok
    /\ page.itemList # <<>> => page.itemList[1].ok

PageEpisodes(page) == IF page.itemList = <<>> THEN <<>> ELSE page.itemList[1].value

PageInfo(page) == IF page.programInfo = <<>> THEN EmptyDict ELSE page.programInfo[1].value

PageHasVideoData(page) == page.uiHlsUrl # <<>> /\ DOMAIN page.uiHlsUrl[1].value # {}

Ops(requests) == [i \in 1..Len(requests) |-> requests[i].op]

Issued(op) == \E i \in 1..Len(LastRequests) : LastRequests[i].op = op

RequestOf(op) ==
    LastRequests[CHOOSE i \in 1..Len(LastRequests) : LastRequests[i].op = op]

\* the last call went past the playlist branch
SinglePath ==
    /\ Called
    /\ PageParses(LastPage)
    /\ PageEpisodes(LastPage) = <<>> \/ EffectiveNoPlaylist(LastUrl)

\* the programInfo in effect after the fallback of lines 103-107
InfoInEffect ==
    IF Issued("getProgramInfo") THEN site.getProgramInfo[LastUrl.id]
    ELSE PageInfo(LastPage)

\* the VideoData the last call obtained: <<>> when it obtained none
ObtainedVideoData ==
    IF ~SinglePath THEN <<>>
    ELSE IF LastPage.uiHlsUrl # <<>> /\ ~LastPage.uiHlsUrl[1].ok THEN <<>>
    ELSE IF PageHasVideoData(LastPage) THEN <<LastPage.uiHlsUrl[1].value>>
    ELSE IF Issued("getMainUrlNoAuth")
    THEN <<site.getMainUrlNoAuth[RequestOf("getMainUrlNoAuth").payload.assetId]>>
    ELSE <<>>

HasFullpath(video_data) ==
    "fullpath" \in DOMAIN video_data /\ video_data["fullpath"] # <<>>

ErrorMessage(video_data) ==
    IF "errorMessage" \in DOMAIN video_data THEN video_data["errorMessage"] ELSE <<>>

IsError(kind) == Called /\ LastResult.kind = "error" /\ LastResult.error = kind

\* ------------------------------------------------------------------- claims

C1_Precondition ==
    /\ Called
    /\ PageParses(LastPage)
    /\ PageEpisodes(LastPage) # <<>>
    /\ {"title", "contentId"} \subseteq DOMAIN PageInfo(LastPage)
    /\ ~("noplaylist" \in DOMAIN params /\ params["noplaylist"])
    /\ ~(Forced(LastUrl) /\ LastUrl.frag[1]["force_noplaylist"])

\* C1: a page with a list of N episodes and a programInfo carrying title and
\* contentId, resolved in playlist mode, gives a playlist of exactly N entries,
\* entry i the url of episode i, with the programInfo's contentId and title.
C1_PlaylistOfAllEpisodes ==
    C1_Precondition =>
        LET episodes == PageEpisodes(LastPage)
        IN  /\ LastResult.kind = "playlist"
            /\ Len(LastResult.entries) = Len(episodes)
            /\ \A i \in 1..Len(episodes) :
                   /\ LastResult.entries[i].type = "url"
                   /\ LastResult.entries[i].url.id = episodes[i]["url"].id
            /\ LastResult.id = PageInfo(LastPage)["contentId"]
            /\ LastResult.title = PageInfo(LastPage)["title"]

C1_Witness ==
    /\ C1_Precondition
    /\ Len(PageEpisodes(LastPage)) = 2
    /\ PageEpisodes(LastPage)[1] # PageEpisodes(LastPage)[2]
    /\ LastUrl.id # PageInfo(LastPage)["contentId"]
    /\ LastResult.kind = "playlist"

\* C2: when the effective noplaylist value is true the call never returns a
\* playlist, its only successful outcome being one video record; a smuggled
\* force_noplaylist decides alone, whatever the global preference.
C2_NoPlaylistWhenDisabled ==
    Called =>
        /\ EffectiveNoPlaylist(LastUrl) => LastResult.kind \in {"video", "error"}
        /\ (/\ Forced(LastUrl)
            /\ ~LastUrl.frag[1]["force_noplaylist"]
            /\ PageParses(LastPage)
            /\ PageEpisodes(LastPage) # <<>>
            /\ {"title", "contentId"} \subseteq DOMAIN PageInfo(LastPage))
           => LastResult.kind = "playlist"

C2_Witness ==
    /\ Called
    /\ Forced(LastUrl)
    /\ LastUrl.frag[1]["force_noplaylist"]
    /\ params = [noplaylist |-> FALSE]
    /\ PageParses(LastPage)
    /\ PageEpisodes(LastPage) # <<>>
    /\ LastResult.kind = "video"

C3_ExpectedError(video_data) ==
    IF ErrorMessage(video_data) = GeoCode THEN "GeoRestricted"
    ELSE IF ErrorMessage(video_data) # <<>> THEN "RemoteError"
    ELSE "UnexpectedResponse"

\* C3: on the single-video path a VideoData without (or with an empty) fullpath
\* fails with the one error its errorMessage selects - GeoRestricted for the
\* region code, RemoteError for any other non-empty message, UnexpectedResponse
\* for none - and the manifest is not fetched; with a fullpath none of the
\* three is raised, whatever errorMessage holds.
C3_FailureClassified ==
    ObtainedVideoData # <<>> =>
        LET video_data == ObtainedVideoData[1]
        IN  IF HasFullpath(video_data)
            THEN LastResult.kind = "error" =>
                     LastResult.error \notin
                         {"GeoRestricted", "RemoteError", "UnexpectedResponse"}
            ELSE /\ IsError(C3_ExpectedError(video_data))
                 /\ ~Issued("m3u8")

C3_Witness ==
    /\ ObtainedVideoData = <<[errorMessage |-> GeoCode]>>
    /\ Issued("getMainUrlNoAuth")
    /\ IsError("GeoRestricted")

C4_Contains(text, msg) ==
    \E i \in 1..Len(text) : i + Len(msg) - 1 <= Len(text)
                            /\ SubSeq(text, i, i + Len(msg) - 1) = msg

\* C4: a RemoteError carries the service's errorMessage exactly as received, and
\* every non-empty errorMessage other than the region code, on a VideoData
\* without fullpath, is reported that way.
C4_MessageVerbatim ==
    /\ IsError("RemoteError") =>
           /\ ObtainedVideoData # <<>>
           /\ ErrorMessage(ObtainedVideoData[1]) # <<>>
           /\ C4_Contains(LastResult.msg, ErrorMessage(ObtainedVideoData[1]))
    /\ (/\ ObtainedVideoData # <<>>
        /\ ~HasFullpath(ObtainedVideoData[1])
        /\ ErrorMessage(ObtainedVideoData[1]) \notin {<<>>, GeoCode})
       => /\ IsError("RemoteError")
          /\ C4_Contains(LastResult.msg, ErrorMessage(ObtainedVideoData[1]))

C4_Witness ==
    /\ IsError("RemoteError")
    /\ ObtainedVideoData # <<>>
    /\ Len(ErrorMessage(ObtainedVideoData[1])) = 2
    /\ C4_Contains(LastResult.msg, ErrorMessage(ObtainedVideoData[1]))

C5_Kept(before, after) ==
    /\ DOMAIN before \ {"http_headers"} \subseteq DOMAIN after
    /\ \A k \in DOMAIN before \ {"http_headers"} : after[k] = before[k]
    /\ "http_headers" \in DOMAIN before =>
           \A h \in DOMAIN before["http_headers"] \ {NoCompression} :
               /\ h \in DOMAIN after["http_headers"]
               /\ after["http_headers"][h] = before["http_headers"][h]

\* C5: every format of a returned video record - one per variant of the
\* manifest - has the no-compression header set to true and keeps the other
\* header entries and fields the variant already had.
C5_NoCompressionEverywhere ==
    (Called /\ LastResult.kind = "video") =>
        LET variants == site.m3u8[ObtainedVideoData[1]["fullpath"]]
        IN  /\ Len(LastResult.formats) = Len(variants)
            /\ \A i \in 1..Len(variants) :
                   /\ "http_headers" \in DOMAIN LastResult.formats[i]
                   /\ NoCompression \in DOMAIN LastResult.formats[i]["http_headers"]
                   /\ LastResult.formats[i]["http_headers"][NoCompression] = TRUE
                   /\ C5_Kept(variants[i], LastResult.formats[i])

C5_Witness ==
    /\ Called
    /\ LastResult.kind = "video"
    /\ Len(LastResult.formats) = 2
    /\ \E i \in 1..2 : "http_headers" \notin DOMAIN site.m3u8[FullPath][i]
    /\ \E i \in 1..2 :
           /\ "http_headers" \in DOMAIN site.m3u8[FullPath][i]
           /\ site.m3u8[FullPath][i]["http_headers"] =
                  SetKey([Accept |-> "any"], NoCompression, FALSE)
           /\ LastResult.formats[i]["http_headers"] =
                  SetKey([Accept |-> "any"], NoCompression, TRUE)

C6_TopIsPlainPlaylist ==
    /\ top # <<>>
    /\ ~Forced(top[1].url)
    /\ top[1].call.result.kind = "playlist"

\* C6: a call emits at most one notice of its own, none when the page has no
\* episode list and none when it carries a smuggled force_noplaylist; a
\* playlist resolved from a user's plain url, together with the resolutions of
\* its entries, emits exactly one notice in total.
C6_AtMostOneNotice ==
    Called =>
        /\ Len(LastScreen) <= 1
        /\ (PageParses(LastPage) /\ PageEpisodes(LastPage) = <<>>) => LastScreen = <<>>
        /\ Forced(LastUrl) => LastScreen = <<>>
        /\ C6_TopIsPlainPlaylist =>
               /\ Len(notices) = 1
               /\ notices[1].kind = "Downloading playlist"

C6_Witness ==
    /\ C6_TopIsPlainPlaylist
    /\ Len(top[1].call.result.entries) = 2
    /\ Len(resolved) = 2
    /\ pending = <<>>
    /\ last[1].entry
    /\ LastResult.kind = "video"
    /\ Len(notices) = 1

C8_Rank(op) ==
    CASE op = "webpage" -> 1
      [] op = "getProgramInfo" -> 2
      [] op = "getMainUrlNoAuth" -> 3
      [] op = "m3u8" -> 4

C8_PayloadFields == {"assetId", "watchDevices", "contentType"}

C9_EntryUrls(entries) == [i \in 1..Len(entries) |-> entries[i].url]

\* C9: every entry of a playlist carries force_noplaylist = true, so resolving
\* an entry never gives another playlist, whatever list the episode's page
\* embeds; the expansion is one level deep and resolves the N entries one at a
\* time, in list order.
C9_NoNestedPlaylist ==
    Called =>
        /\ LastResult.kind = "playlist" =>
               \A i \in 1..Len(LastResult.entries) :
                   LastResult.entries[i].url.frag = <<[force_noplaylist |-> TRUE]>>
        /\ last[1].entry => LastResult.kind # "playlist"
        /\ depth <= 1
        /\ top[1].call.result.kind = "playlist" =>
               /\ resolved \o C9_EntryUrls(pending) =
                      C9_EntryUrls(top[1].call.result.entries)
               /\ pending = <<>> =>
                      Len(resolved) = Len(top[1].call.result.entries)
        /\ top[1].call.result.kind # "playlist" => pending = <<>> /\ resolved = <<>>

C9_Witness ==
    /\ Called
    /\ last[1].entry
    /\ top[1].call.result.kind = "playlist"
    /\ Len(resolved) = 2
    /\ pending = <<>>
    /\ LastUrl.id = top[1].url.id
    /\ PageEpisodes(LastPage) # <<>>
    /\ ~("noplaylist" \in DOMAIN params)
    /\ LastResult.kind = "video"

\* C10: a page without a programInfo assignment is not fatal by itself: with a
\* non-empty episode list in playlist mode the call still returns a playlist,
\* on the single-video path the data comes from getProgramInfo, and any
\* failure reported is one of the taxonomy's error kinds.
C10_MissingInfoTolerated ==
    (Called /\ LastPage.programInfo = <<>> /\ PageParses(LastPage)) =>
        /\ (PageEpisodes(LastPage) # <<>> /\ ~EffectiveNoPlaylist(LastUrl))
               => LastResult.kind = "playlist"
        /\ SinglePath => Issued("getProgramInfo")
        /\ LastResult.kind = "error" => LastResult.error \in TaxonomyKinds

====
